---- MODULE Spec2Model ----
(***************************************************************************)
(* A model of hydrogen.py: requirement specs (Requirement), requirement    *)
(* sets (Requirements), the grouped store and its lock file                *)
(* (GroupedRequirements), HTTP retrieval (get, download_file) and the      *)
(* resolution of a bower package to a GitHub tag (get_bower_package).      *)
(*                                                                         *)
(* A Python string is a sequence of one-character strings, so that the     *)
(* regular expressions of the source are computed, not assumed.            *)
(***************************************************************************)
EXTENDS Integers, Sequences, FiniteSets, TLC

VARIABLES
    reqs,       \* one Requirements set: a set of Requirement records
    store,      \* a GroupedRequirements: group name -> Requirements set
    lockfile,   \* requirements.yml on disk
    call,       \* the operation called last, with its arguments
    result      \* what that call returned or raised

vars == <<reqs, store, lockfile, call, result>>

(***************************************************************************)
(* Bounds of the model.                                                    *)
(***************************************************************************)
MaxNameLen == 2     \* longest package name drawn as an input
MaxVerLen == 2      \* longest version token drawn as an input

(***************************************************************************)
(* Strings.                                                                *)
(***************************************************************************)
NL == "\n"
None == <<"None">>                  \* Python's None, unlike any string
Truthy(v) == v # None /\ v # <<>>   \* bool(v) of a string or None

NameChars == {"a", "b"}
VerChars == {"1", "2"}

Min(S) == CHOOSE x \in S : \A y \in S : x <= y

SeqsUpTo(chars, n) == UNION {[1..k -> chars] : k \in 1..n}

\* regex classes: \s and .
IsSpace(c) == c \in {" ", NL}
IsDot(c) == c # NL
AllDot(s, a, b) == \A k \in a..b : IsDot(s[k])

\* the longest run of whitespace after the first p characters of s
RECURSIVE SpaceRun(_, _)
SpaceRun(s, p) ==
    IF p < Len(s) /\ IsSpace(s[p + 1]) THEN 1 + SpaceRun(s, p + 1) ELSE 0

\* `$` after the first p characters: the end of the string, just before a
\* newline that ends the string, and under re.MULTILINE before any newline
AtDollar(s, p, multiline) ==
    \/ p = Len(s)
    \/ p = Len(s) - 1 /\ s[Len(s)] = NL
    \/ multiline /\ p < Len(s) /\ s[p + 1] = NL

NoMatch == [ok |-> FALSE, g1 |-> None, g2 |-> None, g3 |-> None, end |-> 0]

(***************************************************************************)
(* Requirement.spec_regex, `(.+?)\s*(?:([<>~=]?=)\s*(.+?))?$`, matched as   *)
(* the backtracking engine of `re` matches it: a lazy group grows one      *)
(* character at a time, a greedy one shrinks one character at a time, and   *)
(* the first way to reach `$` is the match.                                *)
(***************************************************************************)
\* `(.+?)$` after the first q characters: the version, n characters or more
RECURSIVE LazyVersion(_, _, _, _)
LazyVersion(s, q, n, multiline) ==
    IF q + n > Len(s) \/ ~IsDot(s[q + n]) THEN NoMatch
    ELSE IF AtDollar(s, q + n, multiline)
    THEN [ok |-> TRUE, g1 |-> None, g2 |-> None,
          g3 |-> SubSeq(s, q + 1, q + n), end |-> q + n]
    ELSE LazyVersion(s, q, n + 1, multiline)

\* `\s*(.+?)$` after the first q characters, the whitespace w characters or
\* fewer
RECURSIVE GreedySpace(_, _, _, _)
RECURSIVE OrLessSpace(_, _, _, _, _)
OrLessSpace(m, s, q, w, multiline) ==
    IF m.ok \/ w = 0 THEN m ELSE GreedySpace(s, q, w - 1, multiline)

GreedySpace(s, q, w, multiline) ==
    OrLessSpace(LazyVersion(s, q + w, 1, multiline), s, q, w, multiline)

\* `\s*(.+?)$` after the first q characters (a comparator was just read)
TailMatch(s, q, multiline) == GreedySpace(s, q, SpaceRun(s, q), multiline)

\* `[<>~=]?=` after the first p characters: the lengths the comparator can
\* take, in the order the engine tries them (the optional character first,
\* then without it)
Comparator(s, p) ==
    (IF p + 2 <= Len(s) /\ s[p + 1] \in {"<", ">", "~", "="} /\ s[p + 2] = "="
     THEN <<2>> ELSE <<>>)
    \o (IF p + 1 <= Len(s) /\ s[p + 1] = "=" THEN <<1>> ELSE <<>>)

\* the group with each comparator length in turn; when none reaches `$` the
\* group is skipped and `$` must match where it would have started
RECURSIVE GroupTails(_, _, _, _)
OrNextComparator(m, s, p, multiline, lens) ==
    IF m.ok THEN [m EXCEPT !.g2 = SubSeq(s, p + 1, p + Head(lens))]
    ELSE GroupTails(s, p, multiline, Tail(lens))

GroupTails(s, p, multiline, lens) ==
    IF lens = <<>>
    THEN IF AtDollar(s, p, multiline)
         THEN [NoMatch EXCEPT !.ok = TRUE, !.end = p]
         ELSE NoMatch
    ELSE OrNextComparator(TailMatch(s, p + Head(lens), multiline),
                          s, p, multiline, lens)

\* `(?:([<>~=]?=)\s*(.+?))?$` after the first p characters
GroupMatch(s, p, multiline) == GroupTails(s, p, multiline, Comparator(s, p))

\* `(.+?)\s*` and the rest at index i: the name n characters or more, the
\* whitespace after it w characters or fewer
RECURSIVE LazyName(_, _, _, _)
RECURSIVE GreedyPad(_, _, _, _, _)
OrLessPad(m, s, i, n, w, multiline) ==
    IF m.ok THEN [m EXCEPT !.g1 = SubSeq(s, i, i + n - 1)]
    ELSE IF w > 0 THEN GreedyPad(s, i, n, w - 1, multiline)
    ELSE LazyName(s, i, n + 1, multiline)

GreedyPad(s, i, n, w, multiline) ==
    OrLessPad(GroupMatch(s, i - 1 + n + w, multiline), s, i, n, w, multiline)

LazyName(s, i, n, multiline) ==
    IF i + n - 1 > Len(s) \/ ~IsDot(s[i + n - 1]) THEN NoMatch
    ELSE GreedyPad(s, i, n, SpaceRun(s, i - 1 + n), multiline)

\* Requirement.spec_regex matched at index i of s
SpecMatchAt(s, i, multiline) == LazyName(s, i, 1, multiline)

(***************************************************************************)
(* Requirement.                                                            *)
(***************************************************************************)
\* the mutant of the constructor: the version is kept as given
RequirementAsGiven(package, version) ==
    [package |-> package, version |-> version]

\* Requirement.__init__
Requirement(package, version) ==
    [package |-> package,
     version |-> IF Truthy(version) /\ version[1] \notin {"<", "=", ">", "~"}
                 THEN <<"=", "=">> \o version
                 ELSE version]

\* what coerce makes of the match of spec_regex
FromMatch(match) ==
    IF ~match.ok
    THEN [exc |-> "InvalidRequirementSpecError", value |-> None]
    ELSE [exc |-> "none",
          value |-> Requirement(match.g1,
                        IF Truthy(match.g2) /\ Truthy(match.g3)
                        THEN match.g2 \o match.g3
                        ELSE None)]

\* Requirement.coerce: the requirement, or the exception raised
coerce(string) == FromMatch(SpecMatchAt(string, 1, FALSE))

\* Requirement.__str__
Str(r) == r.package \o (IF Truthy(r.version) THEN r.version ELSE <<>>)

(***************************************************************************)
(* Requirements: a Python set of Requirement, hashed and compared by       *)
(* package name alone.                                                     *)
(***************************************************************************)
MaxLines == 2       \* most lines of a requirements.txt drawn as an input

\* Requirement.__eq__ and __hash__ decide `elem in self`
Contains(items, elem) == \E r \in items : r.package = elem.package

\* the mutant of set.add: equality on the whole record, not on the name
SetAddByValue(items, elem) == items \cup {elem}

\* set.add: an element equal to one already there is not added
SetAdd(items, elem) ==
    IF Contains(items, elem) THEN items ELSE items \cup {elem}

\* set.remove of a Requirement: KeyError when no element is equal to it
SetRemove(items, elem) ==
    IF Contains(items, elem)
    THEN [items |-> {r \in items : r.package # elem.package}, exc |-> "none"]
    ELSE [items |-> items, exc |-> "KeyError"]

\* an argument that is either text or a Requirement
Text(s) == [kind |-> "text", text |-> s, req |-> None]
Object(r) == [kind |-> "Requirement", text |-> None, req |-> r]

\* the Requirement an argument of add stands for, or the exception
AsRequirement(elem) ==
    IF elem.kind = "text" THEN coerce(elem.text)
    ELSE [exc |-> "none", value |-> elem.req]

\* the body of Requirements.add once elem is a Requirement
AddCoerced(items, c, replace) ==
    IF c.exc # "none" THEN [items |-> items, exc |-> c.exc]
    ELSE [items |-> SetAdd(IF replace /\ Contains(items, c.value)
                           THEN SetRemove(items, c.value).items
                           ELSE items,
                           c.value),
          exc |-> "none"]

\* Requirements.add
RequirementsAdd(items, elem, replace) ==
    AddCoerced(items, AsRequirement(elem), replace)

\* Requirements.remove
RequirementsRemove(items, elem) ==
    IF elem.kind = "text" /\ \E r \in items : r.package = elem.text
    THEN [items |-> {r \in items : r.package # elem.text}, exc |-> "none"]
    ELSE IF elem.kind = "text"
    THEN [items |-> items, exc |-> "KeyError"]
    ELSE SetRemove(items, elem.req)

\* re.search from index pos: the match at the first index that has one
RECURSIVE Search(_, _)
OrSearchOn(m, text, pos) == IF m.ok THEN m ELSE Search(text, pos + 1)

Search(text, pos) ==
    IF pos > Len(text) THEN NoMatch
    ELSE OrSearchOn(SpecMatchAt(text, pos, TRUE), text, pos)

\* a group of a findall tuple: "" for a group that did not take part
Group(g) == IF g = None THEN <<>> ELSE g

\* re.findall(Requirement.spec_regex, text, re.MULTILINE) from index pos:
\* the (name, comparator, version) triples
RECURSIVE FindAll(_, _)
RECURSIVE FindRest(_, _)
FindRest(text, m) ==
    IF ~m.ok THEN <<>>
    ELSE <<[name |-> m.g1, comparator |-> Group(m.g2),
            version |-> Group(m.g3)]>>
         \o FindAll(text, m.end + 1)

FindAll(text, pos) == FindRest(text, Search(text, pos))

\* the loop of Requirements.load over the lines found: add, without replace
RECURSIVE AddLines(_, _)
AddLines(items, lines) ==
    IF lines = <<>> THEN items
    ELSE AddLines(
            RequirementsAdd(items,
                Object(Requirement(Head(lines).name,
                           Head(lines).comparator \o Head(lines).version)),
                FALSE).items,
            Tail(lines))

Missing == <<"Missing">>     \* a path at which there is no file

\* Requirements.load of a path: `r` is [items, filename], `content` the text
\* at the path (Missing when there is none); hasArg tells requirements_file
\* from None
RequirementsLoad(r, hasArg, content) ==
    IF ~hasArg /\ r.filename = "None"
    THEN [items |-> r.items, filename |-> r.filename, exc |-> "ValueError"]
    ELSE IF content = Missing
    THEN [items |-> {}, filename |-> r.filename, exc |-> "IOError"]
    ELSE [items |-> AddLines({}, FindAll(content, 1)),
          filename |-> "path", exc |-> "none"]

\* Requirement.load_installed_version: `installed` maps the installed
\* package names to their versions
load_installed_version(req, installed) ==
    IF req.package \in DOMAIN installed
    THEN [req EXCEPT !.version = <<"=", "=">> \o installed[req.package]]
    ELSE req

(***************************************************************************)
(* The state before any call.                                              *)
(***************************************************************************)
\* no lock file at the path: Path(filename).exists() is False
NoLock == [exists |-> FALSE, content |-> <<>>, saved |-> <<>>]
NoReqs == [items |-> {}, filename |-> "None"]     \* Requirements()
NoCall == [op |-> "none"]
NoResult == [done |-> FALSE, exc |-> "none", values |-> {}, text |-> None]
Done(exc, values) ==
    [done |-> TRUE, exc |-> exc, values |-> values, text |-> None]
\* the result of a call that returns one Requirement or raises
Returned(c) == Done(c.exc, IF c.exc = "none" THEN {c.value} ELSE {})

(***************************************************************************)
(* SpecRequirement: the functions that produce Requirement objects,        *)
(* applied to inputs drawn in the initial state.                           *)
(***************************************************************************)
Names == SeqsUpTo(NameChars, MaxNameLen)
Versions == SeqsUpTo(VerChars, MaxVerLen)
\* the comparators of a constraint, and the other prefixes a caller can write
Comparators ==
    {<<"=", "=">>, <<">", "=">>, <<"<", "=">>, <<">">>, <<"<">>, <<"~", "=">>}
Prefixes == Comparators \cup {<<"=">>, <<"~">>}
Pads == {<<>>, <<" ">>}

\* the lines and the contents of a requirements.txt
FileLines ==
    {<<"b">>, <<"a", "=", "=", "1">>, <<"a", ">", "=", "2">>, <<"b", ">", "1">>}
RECURSIVE JoinLines(_)
JoinLines(lines) ==
    IF lines = <<>> THEN <<>>
    ELSE Head(lines) \o <<NL>> \o JoinLines(Tail(lines))
Files == {JoinLines(ls) : ls \in UNION {[1..k -> FileLines] : k \in 0..MaxLines}}

Input(op, name, pad1, comparator, pad2, version, installed) ==
    [op |-> op, name |-> name, comparator |-> comparator, version |-> version,
     string |-> name \o pad1 \o comparator \o pad2 \o version,
     installed |-> installed]

RequirementInputs ==
    {Input("coerce", n, p1, c, p2, v, None) :
        n \in Names, p1 \in Pads, c \in Prefixes, p2 \in Pads, v \in Versions}
    \cup {Input("coerce", n, p1, <<>>, <<>>, <<>>, None) : n \in Names, p1 \in Pads}
    \cup {Input("coerce", <<>>, p1, <<>>, <<>>, <<>>, None) : p1 \in Pads}
    \cup {Input("Requirement", n, <<>>, c, <<>>, v, None) :
            n \in Names, c \in Prefixes \cup {<<>>}, v \in Versions}
    \cup {Input("Requirement", n, <<>>, <<>>, <<>>, v, None) :
            n \in Names, v \in {None, <<>>}}
    \cup {Input("load", <<>>, <<>>, <<>>, <<>>, f, None) : f \in Files \cup {Missing}}
    \cup {Input("load_installed_version", n, <<>>, c, <<>>, v, i) :
            n \in Names, c \in {<<>>, <<">">>}, v \in {None, <<"1">>},
            i \in {None, <<"2">>}}
    \cup {Input("install_pip", n, <<>>, c, <<>>, v, i) :
            n \in Names, c \in {<<"=", "=">>, <<">">>}, v \in {<<"1">>},
            i \in {<<"2">>}}

InitRequirement ==
    /\ call \in RequirementInputs
    /\ result = NoResult
    /\ reqs = NoReqs
    /\ store = <<>>
    /\ lockfile = NoLock

\* Requirement.coerce(call.string)
Coerce ==
    /\ call.op = "coerce" /\ ~result.done
    /\ result' = Returned(coerce(call.string))
    /\ UNCHANGED <<call, reqs, store, lockfile>>

\* str() of the requirement coerce returned
StrCall ==
    /\ call.op = "coerce" /\ result.done /\ result.exc = "none"
    /\ result.text = None
    /\ \E r \in result.values : result' = [result EXCEPT !.text = Str(r)]
    /\ UNCHANGED <<call, reqs, store, lockfile>>

\* Requirement(call.name, call.comparator + call.version)
Construct ==
    /\ call.op = "Requirement" /\ ~result.done
    /\ result' = Done("none",
                      {Requirement(call.name,
                           IF call.version = None THEN None
                           ELSE call.comparator \o call.version)})
    /\ UNCHANGED <<call, reqs, store, lockfile>>

\* the state after Requirements.load returned or raised r
Loaded(r) ==
    /\ reqs' = [items |-> r.items, filename |-> r.filename]
    /\ result' = Done(r.exc, r.items)

\* Requirements().load(path), the text at path being call.version
LoadFile ==
    /\ call.op = "load" /\ ~result.done
    /\ Loaded(RequirementsLoad(reqs, TRUE, call.version))
    /\ UNCHANGED <<call, store, lockfile>>

\* load_installed_version of a constructed Requirement, the installed
\* packages being {call.name: call.installed} or none
LoadInstalledVersion ==
    /\ call.op = "load_installed_version" /\ ~result.done
    /\ result' = Done("none",
            {load_installed_version(
                Requirement(call.name,
                    IF call.version = None THEN None
                    ELSE call.comparator \o call.version),
                IF call.installed = None THEN <<>>
                ELSE [n \in {call.name} |-> call.installed])})
    /\ UNCHANGED <<call, reqs, store, lockfile>>

\* install_pip rewrites the version of the requirement it coerced
Pinned(c, version) ==
    IF c.exc # "none" THEN c
    ELSE [c EXCEPT !.value.version = <<"=", "=">> \o version]

\* the requirement install_pip builds once pip has installed call.installed
InstallPipRequirement ==
    /\ call.op = "install_pip" /\ ~result.done
    /\ result' = Returned(Pinned(coerce(call.string), call.installed))
    /\ UNCHANGED <<call, reqs, store, lockfile>>

NextRequirement ==
    \/ Coerce
    \/ StrCall
    \/ Construct
    \/ LoadFile
    \/ LoadInstalledVersion
    \/ InstallPipRequirement

SpecRequirement == InitRequirement /\ [][NextRequirement]_vars

(***************************************************************************)
(* SpecReqs: one Requirements set under add, remove, load and              *)
(* load_installed_version.                                                 *)
(***************************************************************************)
PkgA == <<"a">>
PkgB == <<"b">>
Eq(v) == <<"=", "=">> \o v
Gt(v) == <<">">> \o v

\* an argument of add: the spec (name, constraint) it is written from, as
\* text name+constraint or as the Requirement constructed from them
AddText(name, constraint) ==
    [name |-> name, constraint |-> constraint,
     elem |-> Text(name \o (IF constraint = None THEN <<>> ELSE constraint))]
AddObject(name, constraint) ==
    [name |-> name, constraint |-> constraint,
     elem |-> Object(Requirement(name, constraint))]
AddArgs ==
    {AddText(PkgA, c) : c \in {None, Eq(<<"1">>), Eq(<<"2">>), Gt(<<"1">>)}}
    \cup {AddText(PkgB, Eq(<<"1">>))}
    \cup {AddObject(PkgA, c) : c \in {None, Eq(<<"1">>), Gt(<<"2">>)}}
    \cup {AddObject(PkgB, Eq(<<"2">>))}

RemoveArgs ==
    {Text(PkgA), Text(PkgB), Text(PkgA \o Gt(<<"1">>)),
     Object(Requirement(PkgA, None)), Object(Requirement(PkgB, None))}

\* the installed packages: name -> version
InstalledSets ==
    {<<>>, [n \in {PkgA} |-> <<"2">>], [n \in {PkgA, PkgB} |-> <<"1">>]}

\* what is at the path when load reads it: no file, an empty file, and
\* files in which a name comes once or twice
LoadContents ==
    {Missing}
    \cup {JoinLines(ls) :
            ls \in {<<>>,
                    <<PkgA \o Eq(<<"1">>)>>,
                    <<PkgA \o Eq(<<"1">>), PkgA \o <<">", "=", "2">>>>,
                    <<PkgB, PkgB \o Gt(<<"1">>)>>}}

InitReqs ==
    /\ reqs = NoReqs
    /\ call = NoCall
    /\ result = NoResult
    /\ store = <<>>
    /\ lockfile = NoLock

\* the state after an operation returned or raised r, its items in r.items
Applied(r) ==
    /\ reqs' = [reqs EXCEPT !.items = r.items]
    /\ result' = Done(r.exc, {})

\* reqs.add(a.elem, replace)
Add(a, replace) ==
    /\ call' = [op |-> "add", name |-> a.name, constraint |-> a.constraint,
                elem |-> a.elem, replace |-> replace, before |-> reqs.items]
    /\ Applied(RequirementsAdd(reqs.items, a.elem, replace))
    /\ UNCHANGED <<store, lockfile>>

\* reqs.remove(elem)
Remove(elem) ==
    /\ call' = [op |-> "remove", elem |-> elem, before |-> reqs.items]
    /\ Applied(RequirementsRemove(reqs.items, elem))
    /\ UNCHANGED <<store, lockfile>>

\* reqs.load(path) or reqs.load(), the text at the path being content
Load(hasArg, content) ==
    /\ call' = [op |-> "load", hasArg |-> hasArg, content |-> content,
                before |-> reqs.items]
    /\ Loaded(RequirementsLoad(reqs, hasArg, content))
    /\ UNCHANGED <<store, lockfile>>

\* r.load_installed_version() for an r of the set, as freeze --resolve does
Resolve(r, installed) ==
    /\ call' = [op |-> "load_installed_version", elem |-> Object(r),
                before |-> reqs.items]
    /\ reqs' = [reqs EXCEPT !.items =
                    (reqs.items \ {r}) \cup {load_installed_version(r, installed)}]
    /\ result' = Done("none", {})
    /\ UNCHANGED <<store, lockfile>>

NextReqs ==
    \/ \E a \in AddArgs, replace \in BOOLEAN : Add(a, replace)
    \/ \E elem \in RemoveArgs : Remove(elem)
    \/ \E hasArg \in BOOLEAN, content \in LoadContents :
            Load(hasArg, content)
    \/ \E r \in reqs.items, installed \in InstalledSets : Resolve(r, installed)

SpecReqs == InitReqs /\ [][NextReqs]_vars

(***************************************************************************)
(* GroupedRequirements: a defaultdict from group name to NamedRequirements, *)
(* and its lock file.  yaml.dump and yaml.load carry a mapping from group   *)
(* to a list of strings unchanged, so the text on disk is kept as that      *)
(* mapping; what str() and coerce do to each string is computed.            *)
(***************************************************************************)
default_groups == {"all", "dev", "bower", "bower-dev"}

\* GroupedRequirements.create_default_groups: every default group is set to
\* a new NamedRequirements, the other groups are kept
create_default_groups(groups) ==
    [g \in DOMAIN groups \cup default_groups |->
        IF g \in default_groups THEN NoReqs ELSE groups[g]]

\* GroupedRequirements.__init__
NewStore == [groups |-> create_default_groups(<<>>), filename |-> "None"]

\* GroupedRequirements.clear
StoreClear(st) == [st EXCEPT !.groups = create_default_groups(<<>>)]

\* the mutant of __missing__: a missing key is an error
MissingRaises(groups, key) == [groups |-> groups, exc |-> "KeyError"]

\* GroupedRequirements.__missing__: default_factory is NamedRequirements
Missing__(groups, key) ==
    [groups |-> [g \in DOMAIN groups \cup {key} |->
                    IF g = key THEN NoReqs ELSE groups[g]],
     exc |-> "none"]

\* self[key]: the groups after the read, and the exception if any
GetItem(groups, key) ==
    IF key \in DOMAIN groups THEN [groups |-> groups, exc |-> "none"]
    ELSE Missing__(groups, key)

\* the orders in which a set can be iterated
Perms(S) ==
    {p \in [1..Cardinality(S) -> S] :
        \A i \in DOMAIN p : \A j \in DOMAIN p : p[i] = p[j] => i = j}

\* GroupedRequirements.serialized, given the order each set iterates in
Serialized(groups, order) ==
    [g \in DOMAIN groups |->
        [i \in DOMAIN order[g] |-> Str(order[g][i])]]

\* the orders the groups of a store can iterate in
Orders(groups) ==
    {o \in [DOMAIN groups -> UNION {Perms(groups[g].items) : g \in DOMAIN groups}] :
        \A g \in DOMAIN groups : o[g] \in Perms(groups[g].items)}

\* what is compared of a store: per group, the (name, constraint) pairs,
\* no constraint being None or ""
Constraint(r) == IF Truthy(r.version) THEN r.version ELSE None
View(groups) ==
    [g \in DOMAIN groups |->
        {<<r.package, Constraint(r)>> : r \in groups[g].items}]

\* the loop of load over the strings of one group: coerce and add each
RECURSIVE AddStrings(_, _)
AddStrings(items, strings) ==
    IF strings = <<>> THEN items
    ELSE AddStrings(
            RequirementsAdd(items, Text(Head(strings)), FALSE).items,
            Tail(strings))

\* GroupedRequirements.load of a lock file that exists: each string is added
\* to self[group], which is created on its first string
LoadExisting(groups, content) ==
    [g \in DOMAIN groups \cup {h \in DOMAIN content : content[h] # <<>>} |->
        IF g \in DOMAIN content /\ content[g] # <<>>
        THEN [items |-> AddStrings(
                            IF g \in DOMAIN groups THEN groups[g].items ELSE {},
                            content[g]),
              filename |-> IF g \in DOMAIN groups THEN groups[g].filename
                           ELSE "None"]
        ELSE groups[g]]

\* a requirements.txt and a dev-requirements.txt that may be there
PipFile == JoinLines(<<PkgA \o Eq(<<"1">>)>>)
PipFiles == {Missing, PipFile}

\* self[group].load(...) of load_pip_requirements for one group: "all"
\* without its file is handed the output of `pip freeze`, a str that has no
\* open(); a group whose file is missing is otherwise left alone
LoadPipGroup(groups, group, content) ==
    IF content = Missing /\ group = "all"
    THEN [groups |-> [groups EXCEPT ![group].items = {}],
          exc |-> "AttributeError"]
    ELSE IF content = Missing THEN [groups |-> groups, exc |-> "none"]
    ELSE [groups |-> [groups EXCEPT ![group] =
                        [items |-> AddLines({}, FindAll(content, 1)),
                         filename |-> "path"]],
          exc |-> "none"]

\* GroupedRequirements.load_pip_requirements: files_map.items() in either
\* order, stopping at the first exception
ThenPipGroup(first, group, content) ==
    IF first.exc # "none" THEN first
    ELSE LoadPipGroup(first.groups, group, content)

load_pip_requirements(groups, allFirst, allTxt, devTxt) ==
    IF allFirst
    THEN ThenPipGroup(LoadPipGroup(groups, "all", allTxt), "dev", devTxt)
    ELSE ThenPipGroup(LoadPipGroup(groups, "dev", devTxt), "all", allTxt)

(***************************************************************************)
(* SpecStore: one GroupedRequirements and the lock file, under              *)
(* construction, load, clear, save, group reads and adds to a group.        *)
(***************************************************************************)
GroupKeys == default_groups \cup {"x"}

\* self[key].add(elem, replace) as the callers of the store write it
GroupAddArgs ==
    {[key |-> "all", elem |-> Object(Requirement(PkgA, Gt(<<"1">>))),
      replace |-> TRUE],
     [key |-> "all", elem |-> Object(Requirement(PkgA, Eq(<<"1">>))),
      replace |-> FALSE],
     [key |-> "all", elem |-> Text(PkgA \o Gt(<<"1">>)), replace |-> FALSE],
     [key |-> "x", elem |-> Object(Requirement(PkgB, <<"~", "=", "2">>)),
      replace |-> TRUE]}

InitStore ==
    /\ store = NewStore
    /\ lockfile = NoLock
    /\ call = [op |-> "new"]
    /\ result = Done("none", {})
    /\ reqs = NoReqs

\* GroupedRequirements(), as Hydrogen.__init__ constructs one per invocation
New ==
    /\ store' = NewStore
    /\ call' = [op |-> "new"]
    /\ result' = Done("none", {})
    /\ UNCHANGED <<lockfile, reqs>>

\* the text save writes, for one of the orders the sets iterate in, and the
\* view of the store it was written from
Written(groups, order) ==
    [exists |-> TRUE, content |-> Serialized(groups, order),
     saved |-> View(groups)]

\* the end of load when the lock file is missing: what load_pip_requirements
\* left is written to the lock file, unless it raised
Bootstrapped(r) ==
    IF r.exc # "none"
    THEN /\ store' = [store EXCEPT !.groups = r.groups]
         /\ result' = Done(r.exc, {})
         /\ UNCHANGED lockfile
    ELSE /\ store' = [groups |-> r.groups, filename |-> "path"]
         /\ result' = Done("none", {})
         /\ \E order \in Orders(r.groups) :
                lockfile' = Written(r.groups, order)

\* store.load(filename, create_if_missing)
StoreLoad(create_if_missing) ==
    /\ call' = [op |-> "load", fresh |-> store = NewStore,
                existed |-> lockfile.exists]
    /\ \/ /\ ~lockfile.exists /\ create_if_missing
          /\ \E allFirst \in BOOLEAN, allTxt \in PipFiles, devTxt \in PipFiles :
                Bootstrapped(load_pip_requirements(
                                store.groups, allFirst, allTxt, devTxt))
       \/ /\ ~lockfile.exists /\ ~create_if_missing
          /\ result' = Done("IOError", {})
          /\ UNCHANGED <<store, lockfile>>
       \/ /\ lockfile.exists
          /\ store' = [groups |-> LoadExisting(store.groups, lockfile.content),
                       filename |-> "path"]
          /\ result' = Done("none", {})
          /\ UNCHANGED lockfile
    /\ UNCHANGED reqs

\* store.clear()
Clear ==
    /\ store' = StoreClear(store)
    /\ call' = [op |-> "clear"]
    /\ result' = Done("none", {})
    /\ UNCHANGED <<lockfile, reqs>>

\* store.save(filename) or store.save(): without an argument the file is
\* self.filename, None until load has set it
Save(hasArg) ==
    /\ call' = [op |-> "save"]
    /\ IF ~hasArg /\ store.filename = "None"
       THEN /\ result' = Done("AttributeError", {})
            /\ UNCHANGED lockfile
       ELSE /\ result' = Done("none", {})
            /\ \E order \in Orders(store.groups) :
                    lockfile' = Written(store.groups, order)
    /\ UNCHANGED <<store, reqs>>

\* the state after self[key] returned or raised r
Read(r) ==
    /\ store' = [store EXCEPT !.groups = r.groups]
    /\ result' = Done(r.exc, {})

\* store[key]
GetGroup(key) ==
    /\ call' = [op |-> "getitem", key |-> key,
                present |-> key \in DOMAIN store.groups]
    /\ Read(GetItem(store.groups, key))
    /\ UNCHANGED <<lockfile, reqs>>

\* the state after self[key].add(elem, replace), self[key] having returned
\* or raised r
AddedTo(r, a) ==
    IF r.exc # "none" THEN Read(r)
    ELSE /\ store' = [store EXCEPT !.groups =
                [r.groups EXCEPT ![a.key].items =
                    RequirementsAdd(r.groups[a.key].items, a.elem,
                                    a.replace).items]]
         /\ result' = Done("none", {})

\* store[a.key].add(a.elem, a.replace)
GroupAdd(a) ==
    /\ call' = [op |-> "add", key |-> a.key]
    /\ AddedTo(GetItem(store.groups, a.key), a)
    /\ UNCHANGED <<lockfile, reqs>>

NextStore ==
    \/ New
    \/ \E create_if_missing \in BOOLEAN : StoreLoad(create_if_missing)
    \/ Clear
    \/ \E hasArg \in BOOLEAN : Save(hasArg)
    \/ \E key \in GroupKeys : GetGroup(key)
    \/ \E a \in GroupAddArgs : GroupAdd(a)

SpecStore == InitStore /\ [][NextStore]_vars

(***************************************************************************)
(* HTTP: get, download_file and Bower.get_package_url.  A response is its   *)
(* status and what the caller reads of its body.                            *)
(***************************************************************************)
debug == TRUE

\* a URL, as what urlparse reads of it
Url(scheme, netloc, dotgit, path, ref) ==
    [scheme |-> scheme, netloc |-> netloc, dotgit |-> dotgit, path |-> path,
     ref |-> ref]
\* None where a URL is expected
NoUrl == Url("None", "None", FALSE, <<>>, <<>>)

\* get(url, silent=silent), the server answering with status: the raise is
\* under `if not silent`
get(status, silent) ==
    IF ~silent /\ status = 404
    THEN [exc |-> "PackageNotFoundError", status |-> status]
    ELSE [exc |-> "none", status |-> status]

\* the default of silent, `not debug`, that download_file and
\* get_package_url leave in place
DefaultSilent == ~debug

\* what a call has requested, written to disk and installed when it ends
Outcome(exc, requested, downloaded, installed) ==
    [exc |-> exc, requested |-> requested, downloaded |-> downloaded,
     installed |-> installed, dirs |-> {}, files |-> {}, log |-> <<>>,
     ignored |-> {}, depth |-> 0]

\* download_file once get has answered r: the body is written to dest
Written_to(r, url) ==
    IF r.exc # "none" THEN Outcome(r.exc, <<url>>, {}, <<>>)
    ELSE Outcome("none", <<url>>, {url}, <<>>)

\* download_file(url, dest=temp_dir)
download_file(url, status) == Written_to(get(status, DefaultSilent), url)

\* Bower.get_package_url once get has answered r: the "url" of the body
Url_of(r, body) ==
    IF r.exc # "none" THEN [exc |-> r.exc, url |-> NoUrl]
    ELSE [exc |-> "none", url |-> body]

\* Bower.get_package_url(package, silent=silent): silent is not handed on
get_package_url(status, body, silent) ==
    Url_of(get(status, DefaultSilent), body)

(***************************************************************************)
(* Versions: Bower.clean_semver and the calls of semver.match.  A version  *)
(* here is MAJOR.MINOR.PATCH without a pre-release or build part.          *)
(***************************************************************************)
IGNORECASE == 2     \* re.IGNORECASE, handed to re.sub as its count

\* re.sub(r"([<>=~])\s+?v?", "\\1", s, count): a comparator character and
\* one whitespace after it, and a `v` if it follows, become the character
RECURSIVE Sub(_, _)
Sub(s, count) ==
    IF s = <<>> \/ count = 0 THEN s
    ELSE IF s[1] \in {"<", ">", "=", "~"} /\ Len(s) >= 2 /\ IsSpace(s[2])
    THEN <<s[1]>> \o Sub(SubSeq(s, IF Len(s) >= 3 /\ s[3] = "v" THEN 4 ELSE 3,
                                Len(s)),
                         count - 1)
    ELSE <<s[1]>> \o Sub(Tail(s), count)

\* Bower.clean_semver
clean_semver(version_spec) == Sub(version_spec, IGNORECASE)

DigitChars == <<"0", "1", "2", "3", "4", "5", "6", "7", "8", "9">>
IsDigit(c) == \E n \in DOMAIN DigitChars : DigitChars[n] = c
DigitOf(c) == (CHOOSE n \in DOMAIN DigitChars : DigitChars[n] = c) - 1

\* int() of a run of digits
RECURSIVE IntOf(_)
IntOf(s) ==
    IF s = <<>> THEN 0
    ELSE IntOf(SubSeq(s, 1, Len(s) - 1)) * 10 + DigitOf(s[Len(s)])

\* s.split("."), cur being the part read so far
RECURSIVE Split(_, _)
Split(s, cur) ==
    IF s = <<>> THEN <<cur>>
    ELSE IF Head(s) = "." THEN <<cur>> \o Split(Tail(s), <<>>)
    ELSE Split(Tail(s), Append(cur, Head(s)))

\* the numbers of the parts of a version, ValueError unless there are three
\* parts and each is a run of digits
Numbers(parts) ==
    IF /\ Len(parts) = 3
       /\ \A i \in DOMAIN parts :
            parts[i] # <<>> /\ \A j \in DOMAIN parts[i] : IsDigit(parts[i][j])
    THEN [exc |-> "none", v |-> [i \in 1..3 |-> IntOf(parts[i])]]
    ELSE [exc |-> "ValueError", v |-> <<>>]

\* semver.parse
parse(version) == Numbers(Split(version, <<>>))

\* semver.compare of two parsed versions: -1, 0 or 1
Cmp(a, b) ==
    IF a.exc # "none" \/ b.exc # "none" THEN [exc |-> "ValueError", cmp |-> 0]
    ELSE [exc |-> "none",
          cmp |-> IF a.v = b.v THEN 0
                  ELSE IF \E i \in 1..3 :
                            /\ a.v[i] < b.v[i]
                            /\ \A j \in 1..(i - 1) : a.v[j] = b.v[j]
                  THEN 0 - 1 ELSE 1]
compare(ver1, ver2) == Cmp(parse(ver1), parse(ver2))

\* the end of semver.match: is the comparison one the prefix allows
Possible(c, possibilities) ==
    [exc |-> c.exc, ok |-> c.exc = "none" /\ c.cmp \in possibilities]

\* match_expr[:2]
Slice2(s) == SubSeq(s, 1, Min({2, Len(s)}))

\* semver.match(version, match_expr): the prefix is >=, <=, ==, > or <,
\* anything else is a ValueError, as is a version that does not parse
semver_match(version, match_expr) ==
    IF Slice2(match_expr) = <<">", "=">>
    THEN Possible(compare(version, SubSeq(match_expr, 3, Len(match_expr))),
                  {0, 1})
    ELSE IF Slice2(match_expr) = <<"<", "=">>
    THEN Possible(compare(version, SubSeq(match_expr, 3, Len(match_expr))),
                  {0 - 1, 0})
    ELSE IF Slice2(match_expr) = <<"=", "=">>
    THEN Possible(compare(version, SubSeq(match_expr, 3, Len(match_expr))),
                  {0})
    ELSE IF match_expr # <<>> /\ match_expr[1] = ">"
    THEN Possible(compare(version, Tail(match_expr)), {1})
    ELSE IF match_expr # <<>> /\ match_expr[1] = "<"
    THEN Possible(compare(version, Tail(match_expr)), {0 - 1})
    ELSE [exc |-> "ValueError", ok |-> FALSE]

(***************************************************************************)
(* Paths of an archive and the ignore patterns of a manifest.  A path is   *)
(* its PurePath parts, together with whether the string ends in "/".       *)
(***************************************************************************)
Entry(parts, dir) == [parts |-> parts, dir |-> dir]

\* the one value of a set of one value; with it a state that is handed on
\* is computed once, `Only({F(s) : s \in {st}})`
Only(S) == CHOOSE x \in S : TRUE

\* PurePath(path).parents: every proper prefix of the parts, "." included
Parents(parts) == {SubSeq(parts, 1, k) : k \in 0..(Len(parts) - 1)}

\* an ignore pattern, as GitIgnorePattern reads it: "name" matches an entry
\* of that name at any depth and what lies under it, "name/" the same of a
\* directory only, and a pattern with a slash inside ("a/b") is anchored at
\* the start of the path
Pattern(kind, parts) == [kind |-> kind, parts |-> parts]
Matches(pattern, parts, slash) ==
    \/ /\ pattern.kind = "name"
       /\ \E i \in DOMAIN parts : parts[i] = pattern.parts[1]
    \/ /\ pattern.kind = "dir"
       /\ \E i \in DOMAIN parts :
            parts[i] = pattern.parts[1] /\ (i < Len(parts) \/ slash)
    \/ /\ pattern.kind = "path"
       /\ Len(parts) >= Len(pattern.parts)
       /\ SubSeq(parts, 1, Len(pattern.parts)) = pattern.parts

\* path_spec.match_files([path]) is not empty
match_files(patterns, parts, slash) ==
    \E pattern \in patterns : Matches(pattern, parts, slash)

(***************************************************************************)
(* Hydrogen.extract_bower_zipfile and Hydrogen.get_bower_package.  A URL   *)
(* is what urlparse reads of it.  The state st that the calls hand on is   *)
(* what was requested, downloaded, written and installed so far.           *)
(***************************************************************************)
MaxTags == 3        \* most tags of a listing drawn as an input
RecursionLimit == 4 \* most nested calls of get_bower_package the
                    \* interpreter allows before "maximum recursion depth
                    \* exceeded"

User == "u"
Repo == "r"
\* git://github.com/u/r.git, a git repository elsewhere, a zip file, and a
\* URL of another protocol
GithubUrl == Url("git", "github.com", TRUE, <<User, Repo>>, <<>>)
GitUrl == Url("https", "example.com", TRUE, <<User, Repo>>, <<>>)
HttpUrl == Url("https", "example.com", FALSE, <<"pkg.zip">>, <<>>)
FtpUrl == Url("ftp", "example.com", FALSE, <<"pkg.zip">>, <<>>)
\* github_api_uri + "/repos/{}/{}/tags"
TagsUrl(user, repo) ==
    Url("https", "api.github.com", FALSE, <<"repos", user, repo, "tags">>,
        <<>>)
\* the zipball_url of the tag called name
ZipballUrl(name) ==
    Url("https", "api.github.com", FALSE, <<"repos", User, Repo, "zipball">>,
        name)
\* bower_base_uri + "/packages/{}"
IndexUrl(package) ==
    Url("https", "bower.herokuapp.com", FALSE, <<"packages", package>>, <<>>)
\* the zip file the index names for a package
PackageUrl(package) ==
    Url("https", "example.com", FALSE, <<package, "zip">>, <<>>)

\* st, an exception raised
Raise(st, exc) == [st EXCEPT !.exc = exc]

\* st, after a call that requested and downloaded what o did, and ended as
\* o did
Then(st, o) ==
    [st EXCEPT !.exc = o.exc, !.requested = @ \o o.requested,
               !.downloaded = @ \cup o.downloaded]

\* what was written or returned: the zip file of a URL fetched, a directory
\* made, a file copied, a (name, version) appended to deps_installed
Event(kind, package, path) ==
    [kind |-> kind, package |-> package, path |-> path]

\* the index of the first entry of infolist() named bower.json, 0 without
ManifestAt(namelist) ==
    IF \E i \in DOMAIN namelist :
            namelist[i].parts[Len(namelist[i].parts)] = "bower.json"
    THEN Min({i \in DOMAIN namelist :
                namelist[i].parts[Len(namelist[i].parts)] = "bower.json"})
    ELSE 0

\* PurePath(info.filename).parent of the manifest
Root(namelist) ==
    SubSeq(namelist[ManifestAt(namelist)].parts, 1,
           Len(namelist[ManifestAt(namelist)].parts) - 1)

\* is PurePath(path).parts[0] == root: root is a string, str() of the
\* parent, and equals a part only if it is one part
UnderRoot(e, root) == Len(root) = 1 /\ e.parts[1] = root[1]

\* dest_path: the declared name, then the parts after the first
DestPath(archive, e) == <<archive.name>> \o Tail(e.parts)

\* mkdir(parents=True)
Mkdir(st, package, e, dest_path) ==
    [st EXCEPT !.dirs = @ \cup {SubSeq(dest_path, 1, k) :
                                    k \in 1..Len(dest_path)},
               !.log = Append(@, Event("dir", package, e.parts))]

\* target_path.open("wb") and the copy: the directory of the target has to
\* be there
CopyFile(st, package, e, dest_path) ==
    IF SubSeq(dest_path, 1, Len(dest_path) - 1) \notin st.dirs
    THEN Raise(st, "IOError")
    ELSE [st EXCEPT !.files = @ \cup {dest_path},
                    !.log = Append(@, Event("file", package, e.parts))]

\* one turn of `for path in namelist`.  `ignored` holds the strings that
\* match_files returned of the namelist and the PurePaths appended in the
\* loop: a parent, being a PurePath, is equal to none of the strings, and
\* path, being a string, to none of the PurePaths; st.ignored is the
\* PurePaths
Copy(e, archive, st) ==
    IF \/ \E p \in Parents(e.parts) : p \in st.ignored
       \/ match_files(archive.patterns, e.parts, e.dir)
    THEN st
    ELSE IF e.dir
    THEN IF match_files(archive.patterns, DestPath(archive, e), FALSE)
         THEN [st EXCEPT !.ignored = @ \cup {e.parts}]
         ELSE IF DestPath(archive, e) \in st.dirs THEN st
         ELSE Mkdir(st, archive.name, e, DestPath(archive, e))
    ELSE CopyFile(st, archive.name, e, DestPath(archive, e))

\* `for path in namelist`, from namelist[i] on
RECURSIVE CopyEntries(_, _, _, _)
CopyEntries(archive, namelist, i, st) ==
    IF i > Len(namelist) \/ st.exc # "none" THEN st
    ELSE Only({CopyEntries(archive, namelist, i + 1, s) :
                s \in {Copy(namelist[i], archive, st)}})

\* deps_installed.append((bower_json["name"], bower_json["version"]))
Recorded(archive, st) ==
    IF st.exc # "none" THEN st
    ELSE [st EXCEPT !.installed = Append(@, <<archive.name, archive.version>>),
                    !.log = Append(@, Event("record", archive.name, <<>>))]

\* extract_bower_zipfile from bower_json["ignore"] on, the dependencies
\* having left st: without "ignore" a KeyError
Extracted(archive, st) ==
    IF st.exc # "none" THEN st
    ELSE IF ~archive.ignore THEN Raise(st, "KeyError")
    ELSE Only({Recorded(archive, s) :
                s \in {CopyEntries(
                        archive,
                        SelectSeq(archive.namelist,
                                  LAMBDA e : UnderRoot(e,
                                                Root(archive.namelist))),
                        1, [st EXCEPT !.ignored = {}])}})

\* the mutant of the tag loop: no break, the last matching tag is kept
RECURSIVE LastMatch(_, _, _)
KeptLast(m, later, i) ==
    IF m.exc # "none" THEN [exc |-> m.exc, target |-> 0]
    ELSE IF later.exc # "none" \/ later.target # 0 \/ ~m.ok THEN later
    ELSE [exc |-> "none", target |-> i]
LastMatch(tags, i, expr) ==
    IF i > Len(tags) THEN [exc |-> "none", target |-> 0]
    ELSE KeptLast(semver_match(tags[i].name, expr),
                  LastMatch(tags, i + 1, expr), i)

\* `for tag in tags`, from tags[i] on: the index of the first tag that
\* semver.match accepts, 0 when the loop ends without one
RECURSIVE FirstMatch(_, _, _)
OrNextTag(m, tags, i, expr) ==
    IF m.exc # "none" THEN [exc |-> m.exc, target |-> 0]
    ELSE IF m.ok THEN [exc |-> "none", target |-> i]
    ELSE FirstMatch(tags, i + 1, expr)
FirstMatch(tags, i, expr) ==
    IF i > Len(tags) THEN [exc |-> "none", target |-> 0]
    ELSE OrNextTag(semver_match(tags[i].name, expr), tags, i, expr)

\* the mutant of `if not len(tags)`: the error an index miss raises
CheckTagsNotFound(tags) ==
    IF Len(tags) = 0 THEN "PackageNotFoundError" ELSE "none"

\* `if not len(tags): ... raise InvalidPackageError`
CheckTags(tags) == IF Len(tags) = 0 THEN "InvalidPackageError" ELSE "none"

\* what the web answers for a package of the index and for its zip file;
\* a package the index does not know is a 404
NoArchive ==
    [namelist |-> <<>>, name |-> "", version |-> <<>>, dependencies |-> <<>>,
     ignore |-> FALSE, patterns |-> {}]
Unknown ==
    [status |-> 404, url |-> NoUrl, zipStatus |-> 404, archive |-> NoArchive]
Indexed(web, package) ==
    IF package \in DOMAIN web.packages THEN web.packages[package] ELSE Unknown

\* the answer to the request for a zip file: that of the package whose
\* zip file it is, or else web.zipStatus and web.archive
ZipOf(web, url) ==
    IF \E p \in DOMAIN web.packages : web.packages[p].url = url
    THEN web.packages[CHOOSE p \in DOMAIN web.packages :
                            web.packages[p].url = url]
    ELSE [status |-> 200, url |-> url, zipStatus |-> web.zipStatus,
          archive |-> web.archive]

RECURSIVE get_bower_package(_, _, _, _)
RECURSIVE InstallDependencies(_, _, _, _)

\* the mutant of the loop over the dependencies: one that the index does
\* not resolve is passed over
LocatedOrSkipped(r, dep, web, st) ==
    IF r.exc # "none" THEN st
    ELSE get_bower_package(r.url, dep.version, web, st)

\* one turn of the loop over bower_json["dependencies"], get_package_url
\* having returned or raised r
Located(r, dep, web, st) ==
    IF r.exc # "none" THEN Raise(st, r.exc)
    ELSE get_bower_package(r.url, dep.version, web, st)
InstallDependency(dep, web, st) ==
    Located(get_package_url(Indexed(web, dep.package).status,
                            Indexed(web, dep.package).url, FALSE),
            dep, web,
            [st EXCEPT !.requested = Append(@, IndexUrl(dep.package))])

\* `for package, version in bower_json["dependencies"].items()`, from the
\* ith item on
InstallDependencies(deps, i, web, st) ==
    IF i > Len(deps) \/ st.exc # "none" THEN st
    ELSE Only({InstallDependencies(deps, i + 1, web, s) :
                s \in {InstallDependency(deps[i], web, st)}})

\* the mutant of the order of extract_bower_zipfile: the files of the
\* package are copied before its dependencies are installed
FilesFirst(archive, web, st) ==
    Only({InstallDependencies(archive.dependencies, 1, web, s) :
            s \in {Extracted(archive, st)}})

\* extract_bower_zipfile from `if "dependencies" in bower_json` on: the
\* dependencies, and then the files of the package
DependenciesFirst(archive, web, st) ==
    Only({Extracted(archive, s) :
            s \in {InstallDependencies(archive.dependencies, 1, web, st)}})

\* extract_bower_zipfile once the version of the manifest was matched
\* against expected_version: a mismatch is an InvalidPackageError
Matched(m, archive, web, st) ==
    IF m.exc # "none" THEN Raise(st, m.exc)
    ELSE IF ~m.ok THEN Raise(st, "InvalidPackageError")
    ELSE DependenciesFirst(archive, web, st)

\* extract_bower_zipfile(zip_file, dest, expected_version): without a
\* bower.json, bower_json stays None and bower_json["version"] is a
\* TypeError
extract_bower_zipfile(archive, expected_version, web, st) ==
    IF ManifestAt(archive.namelist) = 0 THEN Raise(st, "TypeError")
    ELSE IF expected_version = None
    THEN Matched([exc |-> "none", ok |-> TRUE], archive, web, st)
    ELSE Matched(semver_match(archive.version, clean_semver(expected_version)),
                 archive, web, st)

\* the http(s) branch once download_file returned or raised
Unzipped(url, version, web, st) ==
    IF st.exc # "none" THEN st
    ELSE extract_bower_zipfile(
            ZipOf(web, url).archive, version, web,
            [st EXCEPT !.log = Append(@, Event("fetch", "", url.path))])

\* the github branch once a target was looked for: without one the message
\* is formatted with fields the call of format does not name, a KeyError
\* ahead of `raise VersionNotFoundError`
Targeted(sel, version, web, st) ==
    IF sel.exc # "none" THEN Raise(st, sel.exc)
    ELSE IF sel.target = 0 THEN Raise(st, "KeyError")
    ELSE get_bower_package(web.tags[sel.target].zipball_url, version, web, st)

\* the github branch once the tags were asked for and get answered r
Listed(r, checked, version, web, st) ==
    IF r.exc # "none" THEN Raise(st, r.exc)
    ELSE IF checked # "none" THEN Raise(st, checked)
    ELSE IF version = None
    THEN Targeted([exc |-> "none", target |-> 1], version, web, st)
    ELSE Targeted(FirstMatch(web.tags, 1, clean_semver(version)), version,
                  web, st)

\* the body of get_bower_package; urlparse(None) is an AttributeError
Dispatched(url, version, web, st) ==
    IF url = NoUrl THEN Raise(st, "AttributeError")
    ELSE IF url.scheme = "git" \/ url.dotgit
    THEN IF url.netloc = "github.com"
         THEN Listed(get(web.tagsStatus, DefaultSilent), CheckTags(web.tags),
                     version, web,
                     [st EXCEPT !.requested =
                        Append(@, TagsUrl(url.path[1], url.path[2]))])
         ELSE Raise(st, "NotImplementedError")
    ELSE IF url.scheme \in {"http", "https"}
    THEN Only({Unzipped(url, version, web, s) :
                s \in {Then(st, download_file(url, ZipOf(web, url).zipStatus))}})
    ELSE Raise(st, "SystemExit")

\* a call that returned leaves the depth it was made at
Left(st) == IF st.exc # "none" THEN st ELSE [st EXCEPT !.depth = @ - 1]

\* Hydrogen.get_bower_package(url, version=version), the web answering the
\* request for the tags with web.tagsStatus and web.tags, and the request
\* for a zip file as ZipOf(web, url); a call nested deeper than the
\* interpreter allows is a RuntimeError
get_bower_package(url, version, web, st) ==
    IF st.depth >= RecursionLimit THEN Raise(st, "RuntimeError")
    ELSE Only({Left(r) :
                r \in {Dispatched(url, version, web,
                                  [st EXCEPT !.depth = @ + 1])}})

(***************************************************************************)
(* SpecBower: get, download_file, Bower.get_package_url and                 *)
(* get_bower_package, applied to inputs drawn in the initial state.         *)
(***************************************************************************)
Statuses == {200, 404}

V100 == <<"1", ".", "0", ".", "0">>
V150 == <<"1", ".", "5", ".", "0">>
V200 == <<"2", ".", "0", ".", "0">>
TagNames == {V100, V150, V200, <<"v">> \o V200}
Tag(name) == [name |-> name, zipball_url |-> ZipballUrl(name)]
Listings ==
    UNION {[1..k -> {Tag(n) : n \in TagNames}] : k \in 0..MaxTags}

\* the comparators semver.match knows, and the constraints drawn: a
\* comparator, nothing or " v" after it, and a version
SemverOps == {<<"<">>, <<"<", "=">>, <<"=", "=">>, <<">", "=">>, <<">">>}
NoConstraint == [op |-> <<>>, ver |-> <<>>, text |-> None]
Constraints ==
    {[op |-> o, ver |-> V200, text |-> o \o p \o V200] :
        o \in {<<"<">>, <<">", "=">>, <<"=", "=">>, <<"~", "=">>},
        p \in {<<>>, <<" ", "v">>}}
    \cup {NoConstraint}

\* what a zip file holds: no bower.json, a bower.json, one without "ignore"
Manifest == Entry(<<"src", "bower.json">>, FALSE)
Archives ==
    {NoArchive}
    \cup {[namelist |-> <<Entry(<<"src">>, TRUE), Manifest>>, name |-> "p",
           version |-> V150, dependencies |-> <<>>, ignore |-> i,
           patterns |-> {}] : i \in BOOLEAN}

\* the answers of the web: to the request for the tags, and for a zip file
TagAnswers ==
    {[tagsStatus |-> 200, tags |-> l] : l \in Listings}
    \cup {[tagsStatus |-> 404, tags |-> <<>>]}
ZipAnswers ==
    {[zipStatus |-> 200, archive |-> a] : a \in Archives}
    \cup {[zipStatus |-> 404, archive |-> NoArchive]}
Web(t, z) ==
    [tagsStatus |-> t.tagsStatus, tags |-> t.tags, zipStatus |-> z.zipStatus,
     archive |-> z.archive, packages |-> <<>>]
NoWeb == Web([tagsStatus |-> 200, tags |-> <<>>],
             [zipStatus |-> 200, archive |-> NoArchive])

BowerInput(op, url, status, silent, constraint, web) ==
    [op |-> op, url |-> url, status |-> status, silent |-> silent,
     constraint |-> constraint, web |-> web]

BowerInputs ==
    {BowerInput("get", u, s, q, NoConstraint, NoWeb) :
        u \in {HttpUrl, TagsUrl(User, Repo)}, s \in Statuses, q \in BOOLEAN}
    \cup {BowerInput("download_file", HttpUrl, s, DefaultSilent, NoConstraint,
                     NoWeb) : s \in Statuses}
    \cup {BowerInput("get_package_url", u, s, q, NoConstraint, NoWeb) :
            u \in {GithubUrl, NoUrl}, s \in Statuses, q \in BOOLEAN}
    \cup {BowerInput("get_bower_package", GithubUrl, 200, DefaultSilent, c,
                     Web(t, z)) :
            c \in Constraints, t \in TagAnswers, z \in ZipAnswers}
    \cup {BowerInput("get_bower_package", u, 200, DefaultSilent, c,
                     Web([tagsStatus |-> 200, tags |-> <<>>], z)) :
            u \in {GitUrl, HttpUrl, FtpUrl}, c \in Constraints,
            z \in ZipAnswers}

NoOutcome ==
    [done |-> FALSE, exc |-> "none", requested |-> <<>>, downloaded |-> {},
     installed |-> <<>>, dirs |-> {}, files |-> {}, log |-> <<>>,
     url |-> NoUrl]
Ended(o, url) ==
    [done |-> TRUE, exc |-> o.exc, requested |-> o.requested,
     downloaded |-> o.downloaded, installed |-> o.installed,
     dirs |-> o.dirs, files |-> o.files, log |-> o.log, url |-> url]

InitBower ==
    /\ call \in BowerInputs
    /\ result = NoOutcome
    /\ reqs = NoReqs
    /\ store = <<>>
    /\ lockfile = NoLock

\* the state after get returned or raised r
Got(r) == result' = Ended(Outcome(r.exc, <<call.url>>, {}, <<>>), NoUrl)

\* get(call.url, silent=call.silent)
Get ==
    /\ call.op = "get" /\ ~result.done
    /\ Got(get(call.status, call.silent))
    /\ UNCHANGED <<call, reqs, store, lockfile>>

\* download_file(call.url, dest=temp_dir)
DownloadFile ==
    /\ call.op = "download_file" /\ ~result.done
    /\ result' = Ended(download_file(call.url, call.status), NoUrl)
    /\ UNCHANGED <<call, reqs, store, lockfile>>

\* the state after get_package_url returned or raised r
Resolved(r) == result' = Ended(Outcome(r.exc, <<>>, {}, <<>>), r.url)

\* Bower.get_package_url(package, silent=call.silent), the index answering
\* with call.status and a body whose "url" is call.url or is not there
GetPackageUrl ==
    /\ call.op = "get_package_url" /\ ~result.done
    /\ Resolved(get_package_url(call.status, call.url, call.silent))
    /\ UNCHANGED <<call, reqs, store, lockfile>>

\* get_bower_package(call.url, version=call.constraint.text)
GetBowerPackage ==
    /\ call.op = "get_bower_package" /\ ~result.done
    /\ result' = Ended(get_bower_package(call.url, call.constraint.text,
                                         call.web,
                                         Outcome("none", <<>>, {}, <<>>)),
                       NoUrl)
    /\ UNCHANGED <<call, reqs, store, lockfile>>

NextBower ==
    \/ Get
    \/ DownloadFile
    \/ GetPackageUrl
    \/ GetBowerPackage

SpecBower == InitBower /\ [][NextBower]_vars

(***************************************************************************)
(* SpecPip: Hydrogen.install_pip on a store that Hydrogen.__init__ has      *)
(* loaded, the inputs and the store before the call drawn in the initial    *)
(* state.                                                                   *)
(***************************************************************************)
\* a store whose "all" and "dev" groups hold the given requirements
StoreOf(all, dev) ==
    [groups |-> [g \in default_groups |->
                    [items |-> IF g = "all" THEN all
                               ELSE IF g = "dev" THEN dev ELSE {},
                     filename |-> "None"]],
     filename |-> "path"]

\* what the groups "all" and "dev" hold before install_pip is called
PipGroups ==
    {{}, {Requirement(PkgA, Eq(<<"1">>))},
     {Requirement(PkgA, <<">", "=", "2">>)}, {Requirement(PkgA, None)}}

\* the exit statuses of `pip install`
PipStatuses == {0, 1}

PipInput(a, installed, status, save, save_dev, all, dev) ==
    [op |-> "install_pip", name |-> a.name, constraint |-> a.constraint,
     string |-> a.elem.text, installed |-> installed, status |-> status,
     save |-> save, save_dev |-> save_dev, before |-> StoreOf(all, dev)]

PipInputs ==
    {PipInput(AddText(n, c), i, s, save, save_dev, all, dev) :
        n \in {PkgA, PkgB}, c \in {None, Eq(<<"1">>), Gt(<<"1">>)},
        i \in InstalledSets, s \in PipStatuses, save \in BOOLEAN,
        save_dev \in BOOLEAN, all \in PipGroups,
        dev \in {{}, {Requirement(PkgA, Eq(<<"1">>))}}}

InitPip ==
    /\ call \in PipInputs
    /\ store = call.before
    /\ \E order \in Orders(call.before.groups) :
            lockfile = Written(call.before.groups, order)
    /\ result = NoResult
    /\ reqs = NoReqs

\* self.requirements[group].add(requirement) when flag is set: add is
\* called without replace
SavedTo(groups, group, flag, requirement) ==
    IF flag
    THEN [groups EXCEPT ![group].items =
            RequirementsAdd(groups[group].items, Object(requirement),
                            FALSE).items]
    ELSE groups

\* install_pip once the requirement is pinned: it is added to "all" under
\* save and to "dev" under save_dev, and the store is saved under either
PipSaved(groups, requirement) ==
    /\ store' = [store EXCEPT !.groups = groups]
    /\ result' = Done("none", {requirement})
    /\ IF call.save \/ call.save_dev
       THEN \E order \in Orders(groups) : lockfile' = Written(groups, order)
       ELSE UNCHANGED lockfile

\* the two adds of install_pip, of the pinned requirement
PipAdded(requirement) ==
    PipSaved(SavedTo(SavedTo(store.groups, "all", call.save, requirement),
                     "dev", call.save_dev, requirement),
             requirement)

\* install_pip once coerce has returned or raised c: a status of pip other
\* than 0 ends in fatal, which is sys.exit(1); installed_packages is
\* indexed with the package as coerce read it
PipInstalled(c) ==
    IF c.exc # "none"
    THEN result' = Done(c.exc, {}) /\ UNCHANGED <<store, lockfile>>
    ELSE IF call.status # 0
    THEN result' = Done("SystemExit", {}) /\ UNCHANGED <<store, lockfile>>
    ELSE IF c.value.package \notin DOMAIN call.installed
    THEN result' = Done("KeyError", {}) /\ UNCHANGED <<store, lockfile>>
    ELSE PipAdded(Pinned(c, call.installed[c.value.package]).value)

\* h.install_pip(call.string, save=call.save, save_dev=call.save_dev), pip
\* ending with call.status and call.installed being installed afterwards
InstallPip ==
    /\ call.op = "install_pip" /\ ~result.done
    /\ PipInstalled(coerce(call.string))
    /\ UNCHANGED <<call, reqs>>

NextPip == InstallPip

SpecPip == InitPip /\ [][NextPip]_vars

(***************************************************************************)
(* SpecSave: GroupedRequirements.save of one invocation, step by step,      *)
(* while a second invocation reads the same lock file.  The file on disk    *)
(* is the sequence of the lines of its YAML text written so far.            *)
(***************************************************************************)
\* the keys of a store in the order yaml.dump writes a mapping: sorted
SortedKeys == <<"all", "bower", "bower-dev", "dev", "x">>

\* the lines yaml.dump writes for one group: `g: []` for an empty list,
\* else `g:` and one `- requirement` line per string
GroupLines(g, strings) ==
    IF strings = <<>> THEN <<[group |-> g, kind |-> "empty", text |-> <<>>]>>
    ELSE <<[group |-> g, kind |-> "key", text |-> <<>>]>>
         \o [i \in DOMAIN strings |->
                [group |-> g, kind |-> "item", text |-> strings[i]]]

\* yaml.dump(serialized, default_flow_style=False), from the i-th key on
RECURSIVE YamlLines(_, _)
YamlLines(content, i) ==
    IF i > Len(SortedKeys) THEN <<>>
    ELSE (IF SortedKeys[i] \in DOMAIN content
          THEN GroupLines(SortedKeys[i], content[SortedKeys[i]])
          ELSE <<>>)
         \o YamlLines(content, i + 1)

\* self.yaml, for one of the orders the sets iterate in
Yaml(groups, order) == YamlLines(Serialized(groups, order), 1)

\* the lock file of the stores of SpecSave: its lines on disk, and the text
\* of the last save that ended and of the save under way
Disk(lines, old, new) ==
    [exists |-> TRUE, lines |-> lines, old |-> old, new |-> new]

\* the second invocation has not read the file
NoRead ==
    [done |-> FALSE, exc |-> "none", text |-> <<>>, old |-> <<>>,
     new |-> <<>>]

\* the position of save: not running, or the file is open and `pending` is
\* the part of the text not yet on disk
Idle == [op |-> "save", pc |-> "idle", pending |-> <<>>]

\* what the first invocation adds to its store between two saves
SaveAddArgs ==
    {[key |-> "all", elem |-> Object(Requirement(PkgA, Eq(<<"1">>))),
      replace |-> TRUE],
     [key |-> "bower", elem |-> Object(Requirement(PkgB, None)),
      replace |-> TRUE]}

\* the text of the lock file of a store whose groups are all empty
EmptyYaml == Yaml(StoreOf({}, {}).groups, [g \in default_groups |-> <<>>])

InitSave ==
    /\ store = StoreOf({}, {})
    /\ lockfile = Disk(EmptyYaml, EmptyYaml, EmptyYaml)
    /\ call = Idle
    /\ result = NoRead
    /\ reqs = NoReqs

\* self.requirements[a.key].add(a.elem, replace=True) of an install,
\* between two saves
Mutate(a) ==
    /\ call.pc = "idle"
    /\ store' = [store EXCEPT !.groups[a.key].items =
                    RequirementsAdd(@, a.elem, a.replace).items]
    /\ UNCHANGED <<lockfile, call, result, reqs>>

\* the state after the file was opened for writing: it is empty on disk and
\* text is what write is about to be given
Opened(text) ==
    /\ lockfile' = Disk(<<>>, lockfile.lines, text)
    /\ call' = [op |-> "save", pc |-> "open", pending |-> text]

\* save: `with filename.open("w") as f`, which truncates the file, and the
\* evaluation of self.yaml
SaveOpen ==
    /\ call.pc = "idle"
    /\ \E order \in Orders(store.groups) : Opened(Yaml(store.groups, order))
    /\ UNCHANGED <<store, result, reqs>>

\* save: f.write(self.yaml) reaches the disk, the next lines of it in this
\* flush of the buffer and the rest in a later one
SaveFlush ==
    /\ call.pc = "open"
    /\ \E k \in 1..Len(call.pending) :
        /\ lockfile' = [lockfile EXCEPT
                            !.lines = @ \o SubSeq(call.pending, 1, k)]
        /\ call' = [call EXCEPT !.pending = SubSeq(@, k + 1, Len(@))]
    /\ UNCHANGED <<store, result, reqs>>

\* save: the end of the with block, every line being on disk
SaveClose ==
    /\ call.pc = "open" /\ call.pending = <<>>
    /\ lockfile' = Disk(lockfile.lines, lockfile.lines, lockfile.lines)
    /\ call' = Idle
    /\ UNCHANGED <<store, result, reqs>>

\* GroupedRequirements.load of the second invocation: f.read() returns what
\* is on disk; yaml.load of an empty text is None, and None.items() is an
\* AttributeError
ReaderLoad ==
    /\ result' = [done |-> TRUE,
                  exc |-> IF lockfile.lines = <<>> THEN "AttributeError"
                          ELSE "none",
                  text |-> lockfile.lines, old |-> lockfile.old,
                  new |-> lockfile.new]
    /\ UNCHANGED <<store, lockfile, call, reqs>>

NextSave ==
    \/ \E a \in SaveAddArgs : Mutate(a)
    \/ SaveOpen
    \/ SaveFlush
    \/ SaveClose
    \/ ReaderLoad

SpecSave == InitSave /\ [][NextSave]_vars

(***************************************************************************)
(* SpecExtract: Hydrogen.extract_bower_zipfile on a zip file that declares *)
(* no dependencies, its entries in any order, and a destination that may   *)
(* hold directories of an earlier extraction.                              *)
(***************************************************************************)
\* the entries a zip file is drawn from: the root, the manifest, a
\* directory and a file in it
ZipEntries ==
    {Entry(<<"src">>, TRUE), Manifest, Entry(<<"src", "docs">>, TRUE),
     Entry(<<"src", "docs", "x.js">>, FALSE)}
Namelists == UNION {Perms(S) : S \in SUBSET ZipEntries}

\* the "ignore" lists drawn: docs, docs/, x.js, p/docs and src/docs
IgnoreLists ==
    {{}, {Pattern("name", <<"docs">>)}, {Pattern("dir", <<"docs">>)},
     {Pattern("name", <<"x.js">>)}, {Pattern("path", <<"p", "docs">>)},
     {Pattern("path", <<"src", "docs">>)}}

\* the directories of the destination before the call
Trees == {{}, {<<"p">>, <<"p", "docs">>}}

ExtractInputs ==
    {[op |-> "extract_bower_zipfile",
      archive |-> [namelist |-> n, name |-> "p", version |-> V150,
                   dependencies |-> <<>>, ignore |-> TRUE, patterns |-> i],
      constraint |-> NoConstraint, dirs |-> t, web |-> NoWeb] :
        n \in Namelists, i \in IgnoreLists, t \in Trees}

InitExtract ==
    /\ call \in ExtractInputs
    /\ result = NoOutcome
    /\ reqs = NoReqs
    /\ store = <<>>
    /\ lockfile = NoLock

\* the state a call starts in: nothing requested, the destination as given
Starting(dirs) == [Outcome("none", <<>>, {}, <<>>) EXCEPT !.dirs = dirs]

\* extract_bower_zipfile(call.archive, dest, call.constraint.text)
ExtractBowerZipfile ==
    /\ call.op = "extract_bower_zipfile" /\ ~result.done
    /\ result' = Ended(extract_bower_zipfile(call.archive,
                                             call.constraint.text, call.web,
                                             Starting(call.dirs)), NoUrl)
    /\ UNCHANGED <<call, reqs, store, lockfile>>

NextExtract == ExtractBowerZipfile

SpecExtract == InitExtract /\ [][NextExtract]_vars

(***************************************************************************)
(* SpecInstall: Hydrogen.get_bower_package and Hydrogen.install_bower of   *)
(* the package "p", whose dependencies the index and the web answer for.   *)
(***************************************************************************)
\* "".join(s) of a sequence of characters
RECURSIVE Joined(_)
Joined(s) == IF s = <<>> THEN "" ELSE s[1] \o Joined(Tail(s))

\* an item of bower_json["dependencies"]
Dependency(package, version) == [package |-> package, version |-> version]

\* the constraints a manifest gives for a dependency; each zip file holds
\* version 1.5.0
Geq100 == <<">", "=">> \o V100
Eq200 == <<"=", "=">> \o V200
Tilde100 == <<"~">> \o V100
DependencyConstraints == {Geq100, Eq200, Tilde100}

\* what can be wrong with a package: the index does not know it or has no
\* "url" for it, its zip file is not there, has no bower.json, or has a
\* bower.json without "ignore"
Failures == {"ok", "index404", "nourl", "zip404", "nomanifest", "noignore"}

PackageEntries ==
    <<Entry(<<"src">>, TRUE), Manifest, Entry(<<"src", "main.js">>, FALSE)>>
Package(name, dependencies, failure) ==
    [status |-> IF failure = "index404" THEN 404 ELSE 200,
     url |-> IF failure = "nourl" THEN NoUrl ELSE PackageUrl(name),
     zipStatus |-> IF failure = "zip404" THEN 404 ELSE 200,
     archive |->
        [namelist |-> IF failure = "nomanifest"
                      THEN <<Entry(<<"src">>, TRUE),
                             Entry(<<"src", "main.js">>, FALSE)>>
                      ELSE PackageEntries,
         name |-> name, version |-> V150, dependencies |-> dependencies,
         ignore |-> failure # "noignore", patterns |-> {}]]

\* the dependencies "p" and "q" declare, c being what "p" asks of "q"
DependenciesOfP(c) ==
    {<<>>, <<Dependency("q", c)>>,
     <<Dependency("q", c), Dependency("r", Geq100)>>,
     <<Dependency("r", Geq100), Dependency("q", c)>>,
     <<Dependency("p", Geq100)>>}
DependenciesOfQ ==
    {<<>>, <<Dependency("r", Geq100)>>, <<Dependency("p", Geq100)>>,
     <<Dependency("q", Geq100)>>}

\* a web of the packages "p", "q" and "r"
World(pdeps, qdeps, qfailure, rfailure) ==
    [tagsStatus |-> 200, tags |-> <<>>, zipStatus |-> 404,
     archive |-> NoArchive,
     packages |->
        [x \in {"p", "q", "r"} |->
            IF x = "p" THEN Package("p", pdeps, "ok")
            ELSE IF x = "q" THEN Package("q", qdeps, qfailure)
            ELSE Package("r", <<>>, rfailure)]]
Worlds ==
    {World(pdeps, qdeps, qfailure, rfailure) :
        pdeps \in UNION {DependenciesOfP(c) : c \in DependencyConstraints},
        qdeps \in DependenciesOfQ, qfailure \in Failures,
        rfailure \in {"ok", "zip404", "index404"}}

InstallInput(op, save, save_dev, web) ==
    [op |-> op, string |-> <<"p">>, url |-> PackageUrl("p"),
     constraint |-> NoConstraint, save |-> save, save_dev |-> save_dev,
     web |-> web]
InstallInputs ==
    {InstallInput("get_bower_package", FALSE, FALSE, w) : w \in Worlds}
    \cup {InstallInput("install_bower", save, save_dev, w) :
            save \in BOOLEAN, save_dev \in BOOLEAN, w \in Worlds}

InitInstall ==
    /\ call \in InstallInputs
    /\ result = NoOutcome
    /\ reqs = NoReqs
    /\ store = StoreOf({}, {})
    /\ \E order \in Orders(StoreOf({}, {}).groups) :
            lockfile = Written(StoreOf({}, {}).groups, order)

\* install_bower once get_bower_package returned or raised o: the lambda
\* takes a name and a version and map calls it with one argument, a tuple
\* of the list, which is a TypeError; of an empty list nothing is added and
\* the store is saved under save or save_dev
BowerInstalled(o) ==
    IF o.exc # "none"
    THEN result' = Ended(o, NoUrl) /\ UNCHANGED <<store, lockfile>>
    ELSE IF o.installed # <<>>
    THEN /\ result' = Ended(Raise(o, "TypeError"), NoUrl)
         /\ UNCHANGED <<store, lockfile>>
    ELSE /\ result' = Ended(o, NoUrl)
         /\ UNCHANGED store
         /\ IF call.save \/ call.save_dev
            THEN \E order \in Orders(store.groups) :
                    lockfile' = Written(store.groups, order)
            ELSE UNCHANGED lockfile

\* install_bower once Bower.get_package_url returned or raised r:
\* get_bower_package is called with the URL alone
BowerLocated(r, st) ==
    IF r.exc # "none" THEN BowerInstalled(Raise(st, r.exc))
    ELSE \E o \in {get_bower_package(r.url, None, call.web, st)} :
            BowerInstalled(o)

\* install_bower once coerce returned or raised c
BowerCoerced(c) ==
    IF c.exc # "none"
    THEN BowerInstalled(Outcome(c.exc, <<>>, {}, <<>>))
    ELSE BowerLocated(
            get_package_url(
                Indexed(call.web, Joined(c.value.package)).status,
                Indexed(call.web, Joined(c.value.package)).url, FALSE),
            Outcome("none", <<IndexUrl(Joined(c.value.package))>>, {}, <<>>))

\* h.install_bower(call.string, save=call.save, save_dev=call.save_dev)
InstallBower ==
    /\ call.op = "install_bower" /\ ~result.done
    /\ BowerCoerced(coerce(call.string))
    /\ UNCHANGED <<call, reqs>>

NextInstall ==
    \/ GetBowerPackage
    \/ InstallBower

SpecInstall == InitInstall /\ [][NextInstall]_vars

(***************************************************************************)
(* Claims about Requirement (SpecRequirement).                             *)
(***************************************************************************)
\* a coerce call whose string is name+comparator+version with one of the six
\* comparators, or the bare name, has returned
CoercedSpec ==
    /\ call.op = "coerce" /\ result.done
    /\ call.name # <<>>
    /\ call.comparator \in Comparators \cup {<<>>}
    /\ call.string = call.name \o call.comparator \o call.version

\* C5: for every name, every comparator in ==, >=, <=, >, <, ~= and every
\* version token, coerce of name+comparator+version yields a requirement
\* whose package is the name and whose constraint is comparator+version, and
\* str() of it is the string again; a bare name yields the name with no
\* constraint.
C5_CoerceSplitsNameAndConstraint ==
    CoercedSpec =>
        /\ result.exc = "none"
        /\ \A r \in result.values :
            /\ r.package = call.name
            /\ r.version = IF call.comparator = <<>> THEN None
                           ELSE call.comparator \o call.version
        /\ result.text # None => result.text = call.string

\* C5 holds of the comparators that end in `=` (==, >=, <=, ~=) and of the
\* bare name: what is left of it once `>` and `<` are set aside.
CoerceSplitsTwoCharacterComparators ==
    (CoercedSpec /\ call.comparator \notin {<<">">>, <<"<">>}) =>
        C5_CoerceSplitsNameAndConstraint

\* every Requirement the last call produced, and every one in the set
Produced == result.values \cup reqs.items

\* no constraint: None or the empty string
Absent(version) == version = None \/ version = <<>>

\* the constructor was given a bare version token
ConstructedFromBareVersion ==
    /\ call.op = "Requirement" /\ result.done
    /\ call.comparator = <<>> /\ call.version \in Versions

\* the requirement constructed from a bare version token holds ==version
BareVersionGetsEquals ==
    ConstructedFromBareVersion =>
        \A r \in result.values : r.version = <<"=", "=">> \o call.version

\* C6 as stated: the constraint of every Requirement produced by the
\* constructor, coerce, Requirements.load, load_installed_version or
\* install_pip is absent or begins with one of ==, >=, <=, >, <, ~=; a bare
\* version token given to the constructor becomes ==version.
C6_ConstraintBeginsWithComparator ==
    /\ \A r \in Produced :
        \/ Absent(r.version)
        \/ \E c \in Comparators :
            /\ Len(r.version) >= Len(c)
            /\ SubSeq(r.version, 1, Len(c)) = c
    /\ BareVersionGetsEquals

\* C6 as amended: the constraint is absent or begins with one of the
\* characters <, =, >, ~ (so `=1` and `~1` are kept as given); a bare version
\* token given to the constructor becomes ==version.
C6_ConstraintBeginsWithComparatorCharacter ==
    /\ \A r \in Produced :
        Absent(r.version) \/ r.version[1] \in {"<", "=", ">", "~"}
    /\ BareVersionGetsEquals

\* a bare version token was given to the constructor and stored as ==version
C6_Witness ==
    /\ ConstructedFromBareVersion
    /\ \E r \in result.values : r.version = <<"=", "=">> \o call.version

(***************************************************************************)
(* Claims about Requirements (SpecReqs).                                   *)
(***************************************************************************)
Named(items, name) == {r \in items : r.package = name}

\* add was called with a spec whose name the set already held
AddedOverExisting ==
    call.op = "add" /\ result.done /\ Named(call.before, call.name) # {}

\* C1: when the set already holds an entry named N with constraint C1, add
\* of a spec named N with constraint C2 (as text or as a Requirement) leaves
\* exactly one entry named N, with constraint C2 under replace=True and
\* still C1 under replace=False; every entry with another name is unchanged.
C1_AddLeavesOneEntryPerName ==
    AddedOverExisting =>
        /\ Cardinality(Named(reqs.items, call.name)) = 1
        /\ \A r \in Named(reqs.items, call.name) :
            IF call.replace THEN r.version = call.constraint
            ELSE r \in call.before
        /\ reqs.items \ Named(reqs.items, call.name)
            = call.before \ Named(call.before, call.name)

\* C1 holds when the spec is a Requirement, or text whose constraint is
\* absent or starts with a comparator ending in `=`.
AddOfParsedSpecLeavesOneEntryPerName ==
    (AddedOverExisting
        /\ (call.elem.kind = "Requirement" \/ call.constraint = None
            \/ call.constraint[2] = "=")) =>
        C1_AddLeavesOneEntryPerName

\* C2: after any sequence of add, remove, load and load_installed_version,
\* no two entries of the set have the same package name.
C2_NamesAreUnique ==
    \A r1 \in reqs.items : \A r2 \in reqs.items :
        r1.package = r2.package => r1 = r2

\* an add without replace met an entry of the same name and another
\* constraint, in a set of two names
C2_Witness ==
    /\ AddedOverExisting /\ ~call.replace
    /\ \E r \in Named(call.before, call.name) : r.version # call.constraint
    /\ Cardinality(reqs.items) >= 2

(***************************************************************************)
(* Claims about GroupedRequirements (SpecStore).                           *)
(***************************************************************************)
\* a Requirements set: Requirement records, one per name, and its filename
IsRequirements(r) ==
    /\ DOMAIN r = {"items", "filename"}
    /\ \A x \in r.items : DOMAIN x = {"package", "version"}
    /\ \A x \in r.items : \A y \in r.items : x.package = y.package => x = y

\* C3: in every reachable state of a GroupedRequirements (after construction
\* with no backing file, and after any load, clear, save or group read) each
\* of the four default groups is present and is a requirement set, and
\* reading a group that is not there does not fail but creates an empty
\* requirement set under that name.
C3_DefaultGroupsAndAutoVivify ==
    /\ \A g \in default_groups :
        g \in DOMAIN store.groups /\ IsRequirements(store.groups[g])
    /\ call.op = "getitem" =>
        /\ result.exc = "none"
        /\ call.key \in DOMAIN store.groups
        /\ ~call.present => store.groups[call.key] = NoReqs

\* a group that was not there has been read, in a store that was loaded
C3_Witness ==
    /\ call.op = "getitem" /\ ~call.present
    /\ call.key \notin default_groups
    /\ store.groups[call.key] = NoReqs
    /\ store.filename = "path"

\* the constraints the claim allows: none, or one of the six comparators
\* followed by a version
AllowedView(view) ==
    \A g \in DOMAIN view : \A e \in view[g] :
        \/ e[2] = None
        \/ \E c \in Comparators :
            Len(e[2]) > Len(c) /\ SubSeq(e[2], 1, Len(c)) = c

\* a lock file that save wrote has been loaded into a store just constructed
ReloadedFresh ==
    /\ call.op = "load" /\ call.fresh /\ call.existed
    /\ result.exc = "none"

\* C4: for every store whose entries carry the allowed constraints, saving
\* it to the lock file and loading that file into a freshly constructed
\* store yields the same groups with the same (name, constraint) pairs in
\* each group.
C4_SaveThenLoadIsIdentity ==
    (ReloadedFresh /\ AllowedView(lockfile.saved)) =>
        View(store.groups) = lockfile.saved

\* C4 holds of the stores that hold no constraint starting with a bare `>`
\* or `<` and no empty group besides the default ones.
SaveThenLoadOfParsedStoreIsIdentity ==
    (/\ ReloadedFresh /\ AllowedView(lockfile.saved)
     /\ \A g \in DOMAIN lockfile.saved :
            /\ g \notin default_groups => lockfile.saved[g] # {}
            /\ \A e \in lockfile.saved[g] : e[2] = None \/ e[2][2] = "=") =>
        View(store.groups) = lockfile.saved

(***************************************************************************)
(* Claims about get_bower_package and get (SpecBower).                     *)
(***************************************************************************)
\* get_bower_package of the GitHub URL has ended, the tags having been
\* listed with status 200
ListedTags ==
    /\ call.op = "get_bower_package" /\ call.url = GithubUrl
    /\ call.web.tagsStatus = 200
    /\ result.done

\* a < b for two parsed versions
Lower(a, b) ==
    \E i \in 1..3 : a[i] < b[i] /\ \A j \in 1..(i - 1) : a[j] = b[j]

\* the tag name is a version, and one the constraint allows
Allows(c, t, v) ==
    \/ c.op = <<"<">> /\ Lower(t, v)
    \/ c.op = <<"<", "=">> /\ ~Lower(v, t)
    \/ c.op = <<"=", "=">> /\ t = v
    \/ c.op = <<">", "=">> /\ ~Lower(t, v)
    \/ c.op = <<">">> /\ Lower(v, t)
IsVersion(name) == parse(name).exc = "none"
Satisfies(name, c) ==
    IsVersion(name) /\ Allows(c, parse(name).v, parse(c.ver).v)
Satisfying(tags, c) == {i \in DOMAIN tags : Satisfies(tags[i].name, c)}

\* the zip file of the tag was asked for, after the tags and nothing else,
\* and was written to disk if the server had it
Fetches(tag) ==
    /\ result.requested = <<TagsUrl(User, Repo), tag.zipball_url>>
    /\ call.web.zipStatus = 200 => result.downloaded = {tag.zipball_url}

VersionsUpToFirst(tags, c) ==
    \A j \in DOMAIN tags :
        (\A i \in Satisfying(tags, c) : j < i) => IsVersion(tags[j].name)

NoTagSatisfies ==
    /\ ListedTags /\ Len(call.web.tags) > 0
    /\ call.constraint.op \in SemverOps
    /\ \A i \in DOMAIN call.web.tags : IsVersion(call.web.tags[i].name)
    /\ Satisfying(call.web.tags, call.constraint) = {}

\* C8: when the listing is non-empty and a constraint is given that no tag
\* name satisfies, get_bower_package fails with VersionNotFoundError, and
\* nothing is downloaded or extracted.
C8_NoSatisfyingTagRaisesVersionNotFound ==
    NoTagSatisfies =>
        /\ result.exc = "VersionNotFoundError"
        /\ result.downloaded = {} /\ result.installed = <<>>

\* What the code does instead: the message of the error cannot be
\* formatted, and the KeyError of that is what the caller sees; nothing is
\* downloaded or extracted.
NoSatisfyingTagRaisesKeyError ==
    NoTagSatisfies =>
        /\ result.exc = "KeyError"
        /\ result.requested = <<TagsUrl(User, Repo)>>
        /\ result.downloaded = {} /\ result.installed = <<>>

\* C9 as stated: when the listing is empty, get_bower_package fails with
\* PackageNotFoundError, whatever the constraint.
C9_EmptyListingRaisesPackageNotFound ==
    (ListedTags /\ Len(call.web.tags) = 0) =>
        result.exc = "PackageNotFoundError"

\* C9: when the listing is empty, get_bower_package fails with
\* InvalidPackageError, whatever the constraint, and asks for nothing but
\* the tags.
C9_EmptyListingRaisesInvalidPackage ==
    (ListedTags /\ Len(call.web.tags) = 0) =>
        /\ result.exc = "InvalidPackageError"
        /\ result.requested = <<TagsUrl(User, Repo)>>
        /\ result.downloaded = {}

\* an empty listing, asked for with a constraint, has raised
C9_Witness ==
    /\ ListedTags /\ Len(call.web.tags) = 0
    /\ call.constraint # NoConstraint
    /\ result.exc = "InvalidPackageError"

\* get, download_file or get_package_url has ended on a response of
\* status 404
NotFound ==
    /\ call.op \in {"get", "download_file", "get_package_url"}
    /\ call.status = 404
    /\ result.done

\* C10: for every call of get, download_file and Bower.get_package_url,
\* with any value of silent, a response of status 404 makes the call raise
\* PackageNotFoundError.
C10_NotFoundRaisesWhateverSilent ==
    NotFound => result.exc = "PackageNotFoundError"

\* What the code does: a 404 raises PackageNotFoundError from download_file
\* and get_package_url, and from get unless silent is true; get then returns
\* the response.
NotFoundRaisesUnlessSilent ==
    NotFound =>
        IF call.op = "get" /\ call.silent THEN result.exc = "none"
        ELSE result.exc = "PackageNotFoundError"

(***************************************************************************)
(* Claims about install_pip (SpecPip).                                     *)
(***************************************************************************)
\* install_pip of a package that pip installed has returned
PipSucceeded ==
    call.op = "install_pip" /\ result.done /\ result.exc = "none"

\* the group holds exactly one entry named call.name, pinned to the version
\* that is installed
PinnedIn(group) ==
    /\ Cardinality(Named(store.groups[group].items, call.name)) = 1
    /\ \A r \in Named(store.groups[group].items, call.name) :
            r.version = <<"=", "=">> \o call.installed[call.name]

\* C17: after every successful install_pip of P with save (respectively
\* save_dev) set, from any prior store, the group "all" (respectively
\* "dev") holds exactly one entry named P, and its constraint is ==
\* followed by the version now installed.
C17_InstallPipPinsInstalledVersion ==
    PipSucceeded =>
        /\ call.save => PinnedIn("all")
        /\ call.save_dev => PinnedIn("dev")

\* What the code does: the group holds exactly one entry named P; it is
\* pinned to the installed version when the group held no entry named P
\* before, and is the entry the group held before otherwise.
InstallPipKeepsRecordedEntry ==
    \A group \in {"all", "dev"} :
        (PipSucceeded /\ (IF group = "all" THEN call.save ELSE call.save_dev)) =>
            /\ Cardinality(Named(store.groups[group].items, call.name)) = 1
            /\ IF Named(call.before.groups[group].items, call.name) = {}
               THEN PinnedIn(group)
               ELSE Named(store.groups[group].items, call.name)
                        = Named(call.before.groups[group].items, call.name)

(***************************************************************************)
(* Claims about save and a concurrent reader (SpecSave).                   *)
(***************************************************************************)
\* C14: in every interleaving of a save with a reader of the same lock
\* file, the reader sees either the complete previous content or the
\* complete new content, never an empty or partially written file.
C14_ReaderSeesCompleteFile ==
    result.done => result.text \in {result.old, result.new}

\* What the code gives a reader: a prefix of the new content, which is
\* empty from the moment save opens the file until the first flush.
ReaderSeesPrefixOfNewContent ==
    result.done =>
        \/ result.text = result.old
        \/ /\ Len(result.text) <= Len(result.new)
           /\ result.text = SubSeq(result.new, 1, Len(result.text))

(***************************************************************************)
(* Claims about extract_bower_zipfile (SpecExtract).                       *)
(***************************************************************************)
\* the directories above an entry, as PurePath parts
Above(parts) == {SubSeq(parts, 1, k) : k \in 1..(Len(parts) - 1)}

\* an entry that the ignore list of its package rules out: its source path
\* matches, or a directory above it matches by its source path or by its
\* destination-mapped path
RuledOut(archive, parts, dir) ==
    \/ match_files(archive.patterns, parts, dir)
    \/ \E d \in Above(parts) :
        \/ match_files(archive.patterns, d, TRUE)
        \/ match_files(archive.patterns, <<archive.name>> \o Tail(d), FALSE)

\* the entries the call wrote to the destination
WrittenEntries ==
    {i \in DOMAIN result.log : result.log[i].kind \in {"dir", "file"}}

\* C11: whatever the archive, its ignore list and the order of its entries,
\* extract_bower_zipfile writes no file or directory whose source path
\* matches an ignore pattern or that lies under a directory whose source
\* path or destination-mapped path matches one.
C11_IgnoredPathsAreNeverWritten ==
    (call.op = "extract_bower_zipfile" /\ result.done) =>
        \A i \in WrittenEntries :
            ~RuledOut(call.archive, result.log[i].path,
                      result.log[i].kind = "dir")

\* every directory above an entry of the archive is an entry of its own,
\* listed ahead of it
DirectoriesListedFirst(namelist) ==
    \A i \in DOMAIN namelist :
        \A d \in Above(namelist[i].parts) :
            \E j \in 1..(i - 1) : namelist[j] = Entry(d, TRUE)

\* what the code does: nothing that is ruled out is written when the
\* directories are entries listed ahead of what they hold
ExtractSkipsIgnoredUnderListedDirectories ==
    (/\ call.op = "extract_bower_zipfile" /\ result.done
     /\ DirectoriesListedFirst(call.archive.namelist)) =>
        \A i \in WrittenEntries :
            ~RuledOut(call.archive, result.log[i].path,
                      result.log[i].kind = "dir")

\* an ignored directory and what it holds were skipped, the rest written
ExtractSkippedIgnoredDirectory ==
    /\ call.op = "extract_bower_zipfile" /\ result.done
    /\ result.exc = "none"
    /\ call.archive.patterns = {Pattern("path", <<"p", "docs">>)}
    /\ Len(call.archive.namelist) = 4
    /\ <<"p", "bower.json">> \in result.files
    /\ <<"p", "docs", "x.js">> \notin result.files

\* C13: a zip file without a manifest is refused with InvalidPackageError,
\* and nothing is requested or written.
C13_MissingManifestRaisesInvalidPackage ==
    (/\ call.op = "extract_bower_zipfile" /\ result.done
     /\ ManifestAt(call.archive.namelist) = 0) =>
        /\ result.exc = "InvalidPackageError"
        /\ result.requested = <<>>
        /\ result.log = <<>>

\* what the code does: the subscript of None is a TypeError, and nothing
\* was requested or written
MissingManifestRaisesTypeError ==
    (/\ call.op = "extract_bower_zipfile" /\ result.done
     /\ ManifestAt(call.archive.namelist) = 0) =>
        /\ result.exc = "TypeError"
        /\ result.requested = <<>>
        /\ result.log = <<>>
        /\ result.dirs = call.dirs
        /\ result.files = {}

(***************************************************************************)
(* Claims about dependencies and install_bower (SpecInstall).              *)
(***************************************************************************)
\* the packages that the manifest of package x names as dependencies
Declared(x) ==
    {call.web.packages[x].archive.dependencies[i].package :
        i \in DOMAIN call.web.packages[x].archive.dependencies}

\* package d was recorded as installed before the ith event of the log
RecordedBefore(d, i) ==
    \E j \in 1..(i - 1) : result.log[j] = Event("record", d, <<>>)

\* the zip file of package d was fetched before the ith event of the log
FetchedBefore(d, i) ==
    \E j \in 1..(i - 1) :
        result.log[j] = Event("fetch", "", PackageUrl(d).path)

\* C12: in a successful get_bower_package of a package with dependencies,
\* every dependency is resolved, fetched and extracted, at every depth,
\* before a file of the package that declares it is written, and the
\* record of a package comes after the records of its dependencies, that
\* of the package asked for being the last.
C12_DependenciesAreInstalledFirst ==
    (call.op = "get_bower_package" /\ result.done /\ result.exc = "none") =>
        /\ \A i \in DOMAIN result.log :
            result.log[i].kind \in {"dir", "file", "record"} =>
                \A d \in Declared(result.log[i].package) :
                    /\ RecordedBefore(d, i)
                    /\ FetchedBefore(d, i)
                    /\ \E k \in DOMAIN result.requested :
                            result.requested[k] = IndexUrl(d)
        /\ \A i \in DOMAIN result.installed :
            \A d \in Declared(result.installed[i][1]) :
                \E j \in 1..(i - 1) : result.installed[j][1] = d
        /\ result.installed[Len(result.installed)] = <<"p", V150>>

\* "p" with the dependencies "q" and "r", "q" with the dependency "r": "r"
\* is installed twice, then "q", or the other way around, and "p" last
C12_Witness ==
    /\ call.op = "get_bower_package" /\ result.done /\ result.exc = "none"
    /\ Declared("p") = {"q", "r"}
    /\ Declared("q") = {"r"}
    /\ Len(result.installed) = 4
    /\ <<"p", "main.js">> \in result.files

\* a dependency of "p" that was not installed when the call ended
DependencyFailed ==
    \E d \in Declared("p") :
        \A i \in DOMAIN result.log : result.log[i] # Event("record", d, <<>>)

\* the first dependency of "p" is "q", which declares none itself, and the
\* constraint on it is one that its version meets
FirstIsLeafQ ==
    /\ call.web.packages["p"].archive.dependencies # <<>>
    /\ call.web.packages["p"].archive.dependencies[1] =
            Dependency("q", Geq100)
    /\ Declared("q") = {}

\* the error of resolving and extracting a package without dependencies
ErrorOf(package) ==
    IF package.status = 404 THEN "PackageNotFoundError"
    ELSE IF package.url = NoUrl THEN "AttributeError"
    ELSE IF package.zipStatus = 404 THEN "PackageNotFoundError"
    ELSE IF ManifestAt(package.archive.namelist) = 0 THEN "TypeError"
    ELSE IF ~package.archive.ignore THEN "KeyError"
    ELSE "none"

\* C15: when a dependency of the package fails to resolve or extract,
\* install_bower fails with that error, no file of the package itself is
\* written, no requirement is added, the lock file is not rewritten, and
\* the files of the dependencies extracted before the failure stay.
C15_FailedDependencyAbortsInstall ==
    (call.op = "install_bower" /\ result.done /\ DependencyFailed) =>
        /\ result.exc # "none"
        /\ (FirstIsLeafQ /\ ErrorOf(call.web.packages["q"]) # "none") =>
                result.exc = ErrorOf(call.web.packages["q"])
        /\ \A i \in DOMAIN result.log : result.log[i].package # "p"
        /\ \A f \in result.files : f[1] # "p"
        /\ store = StoreOf({}, {})
        /\ \E order \in Orders(store.groups) :
                lockfile = Written(store.groups, order)
        /\ \A i \in DOMAIN result.log :
            result.log[i].kind = "record" =>
                <<result.log[i].package, "main.js">> \in result.files

\* "r" was extracted and then "q" could not be fetched
C15_Witness ==
    /\ call.op = "install_bower" /\ result.done /\ call.save
    /\ DependencyFailed
    /\ call.web.packages["q"].zipStatus = 404
    /\ result.exc = "PackageNotFoundError"
    /\ result.files = {<<"r", "bower.json">>, <<"r", "main.js">>}

\* the dependencies of "p" lead back to a package that is being installed:
\* "p" names itself, or its first dependency "q" can be fetched and read
\* and names "p" or itself
CycleAhead ==
    \/ Declared("p") = {"p"}
    \/ /\ call.web.packages["p"].archive.dependencies # <<>>
       /\ call.web.packages["p"].archive.dependencies[1] =
            Dependency("q", Geq100)
       /\ call.web.packages["q"].status = 200
       /\ call.web.packages["q"].url # NoUrl
       /\ call.web.packages["q"].zipStatus = 200
       /\ ManifestAt(call.web.packages["q"].archive.namelist) # 0
       /\ Declared("q") \cap {"p", "q"} # {}

\* C16: a package whose dependencies form a cycle ends the call with
\* CyclicDependencyError.
C16_CycleRaisesCyclicDependencyError ==
    (/\ call.op \in {"get_bower_package", "install_bower"}
     /\ result.done /\ CycleAhead) =>
        result.exc = "CyclicDependencyError"

\* what the code does: the packages of the cycle are fetched again and
\* again until the interpreter refuses a deeper call, and nothing of them
\* is written
CycleEndsAtRecursionLimit ==
    (/\ call.op \in {"get_bower_package", "install_bower"}
     /\ result.done /\ CycleAhead) =>
        /\ result.exc = "RuntimeError"
        /\ Cardinality({i \in DOMAIN result.log :
                            result.log[i].kind = "fetch"}) = RecursionLimit
        /\ \A f \in result.files : f[1] \notin {"p", "q"}

====
